---- MODULE Spec2Model ----
(***************************************************************************)
(* A model of the error-flow analysis and coverage engine of code-context  *)
(* (src/src/analyzers/error-analyzer.ts, class ErrorAnalyzer).             *)
(*                                                                         *)
(* The analyzer owns a ts-morph Project: a list of parsed source files.    *)
(* A parsed file is modelled by the three kinds of syntax node the         *)
(* analyzer ever looks at: its top-level class declarations, its throw     *)
(* statements and its catch clauses, each in document order.  Every text   *)
(* the analyzer compares (class names, extends clauses, thrown             *)
(* expressions, right-hand sides of instanceof) is a string, and           *)
(* String.prototype.includes is a real substring test.  JavaScript numbers *)
(* are IEEE-754 doubles: division and multiplication round to 53 bits.     *)
(***************************************************************************)
EXTENDS Integers, Sequences, FiniteSets, TLC

(***************************************************************************)
(* Bounds of the model.                                                    *)
(***************************************************************************)
MaxFiles == 3
MaxTypes == 40

(***************************************************************************)
(* JavaScript values.                                                      *)
(***************************************************************************)
\* the value `undefined' of an absent name, extends clause or variable
Undefined == "<undefined>"

\* JavaScript truthiness of a string-or-undefined value
Truthy(s) == s # Undefined /\ s # ""

\* String.prototype.includes
Includes(s, t) ==
  \E i \in 0..(Len(s) - Len(t)) : SubSeq(s, i + 1, i + Len(t)) = t

\* Array.prototype.includes
ArrayIncludes(xs, x) == \E i \in 1..Len(xs) : xs[i] = x

\* the indices 1..n in increasing order
Indices(n) == [i \in 1..n |-> i]

\* [...new Set(xs)]: the distinct elements in order of first occurrence
Dedup(xs) ==
  LET kept == SelectSeq(Indices(Len(xs)),
                        LAMBDA i : \A j \in 1..(i - 1) : xs[j] # xs[i])
  IN [k \in 1..Len(kept) |-> xs[kept[k]]]

\* the concatenation of a sequence of sequences, in order
RECURSIVE Flatten(_)
Flatten(xss) ==
  IF xss = <<>> THEN <<>> ELSE Head(xss) \o Flatten(Tail(xss))

ToSet(xs) == {xs[i] : i \in 1..Len(xs)}

(***************************************************************************)
(* IEEE-754 double arithmetic on the values the report computes.  A finite *)
(* non-zero double is a 53-bit significand m (most significant bit first,  *)
(* leading bit 1) and an exponent e: its value is m * 2^e.                 *)
(***************************************************************************)
Precision == 53

JSZero == [kind |-> "zero", m |-> <<>>, e |-> 0]
JSNaN  == [kind |-> "nan",  m |-> <<>>, e |-> 0]
JSInf  == [kind |-> "inf",  m |-> <<>>, e |-> 0]

\* 2^n, for 0 <= n <= 30
PowersOfTwo ==
  <<1, 2, 4, 8, 16, 32, 64, 128, 256, 512, 1024, 2048, 4096, 8192, 16384,
    32768, 65536, 131072, 262144, 524288, 1048576, 2097152, 4194304,
    8388608, 16777216, 33554432, 67108864, 134217728, 268435456,
    536870912, 1073741824>>

Pow2(n) == PowersOfTwo[n + 1]

LimbBits == 18
LimbBase == Pow2(LimbBits)

\* the integer a bit string of at most 30 bits denotes
RECURSIVE BitsToInt(_)
BitsToInt(bits) ==
  IF bits = <<>> THEN 0
  ELSE 2 * BitsToInt(SubSeq(bits, 1, Len(bits) - 1)) + bits[Len(bits)]

\* the w-bit string of the integer n, 0 <= n < 2^w
IntToBits(n, w) == [i \in 1..w |-> (n \div Pow2(w - i)) % 2]

\* the number of significant bits of n, 0 < n < 2^30
BitLength(n) == CHOOSE w \in 1..30 : Pow2(w - 1) <= n /\ n < Pow2(w)

\* 2^i modulo b, for 0 <= i < 4 * 15 and 0 < b < 2^15
PowMod(i, b) ==
  LET base == Pow2(15) % b
      q    == i \div 15
      hi   == IF q = 0 THEN 1 % b
              ELSE IF q = 1 THEN base
              ELSE IF q = 2 THEN (base * base) % b
              ELSE (((base * base) % b) * base) % b
  IN (hi * (Pow2(i % 15) % b)) % b

\* bits + 1, with the carry out as a new leading bit
Increment(bits) ==
  LET n     == Len(bits)
      zeros == {i \in 1..n : bits[i] = 0}
  IN IF zeros = {} THEN [i \in 1..(n + 1) |-> IF i = 1 THEN 1 ELSE 0]
     ELSE LET j == CHOOSE i \in zeros : \A k \in zeros : k <= i
          IN [i \in 1..n |-> IF i < j THEN bits[i] ELSE IF i = j THEN 1 ELSE 0]

\* round-to-nearest, ties-to-even, of the significand `bits' (exactly
\* Precision bits) given whether the discarded part is above or exactly at
\* one half of the last place; e is the exponent of the last kept bit
RoundNearestEven(bits, e, aboveHalf, exactlyHalf) ==
  LET up  == aboveHalf \/ (exactlyHalf /\ bits[Len(bits)] = 1)
      inc == Increment(bits)
  IN IF ~up THEN [kind |-> "num", m |-> bits, e |-> e]
     ELSE IF Len(inc) > Precision
          THEN [kind |-> "num", m |-> SubSeq(inc, 1, Precision), e |-> e + 1]
          ELSE [kind |-> "num", m |-> inc, e |-> e]

\* the remainder left after i bits of the binary expansion of r / b
\* (0 <= r < b): r * 2^i modulo b
DivRem(r, b, i) == (r * PowMod(i, b)) % b

\* the first n bits of the binary expansion of r / b (0 <= r < b)
DivBits(r, b, n) ==
  [i \in 1..n |-> IF 2 * DivRem(r, b, i - 1) >= b THEN 1 ELSE 0]

\* the k with b * 2^k <= a < b * 2^(k+1), for a, b > 0
RECURSIVE Log2Quot(_, _)
Log2Quot(a, b) ==
  IF a < b THEN Log2Quot(2 * a, b) - 1
  ELSE IF a >= 2 * b THEN Log2Quot(a, 2 * b) + 1
  ELSE 0

\* the double c / t of two small non-negative integers (the `/' of
\* JavaScript on two array lengths)
JSDiv(c, t) ==
  IF t = 0 THEN (IF c = 0 THEN JSNaN ELSE JSInf)
  ELSE IF c = 0 THEN JSZero
  ELSE LET k   == Log2Quot(c, t)
           a   == IF k < 0 THEN c * Pow2(0 - k) ELSE c
           b   == IF k > 0 THEN t * Pow2(k) ELSE t
           rem == DivRem(a - b, b, Precision - 1)
       IN RoundNearestEven(<<1>> \o DivBits(a - b, b, Precision - 1),
                           k - (Precision - 1), 2 * rem > b, 2 * rem = b)

\* the exact product of a Precision-bit significand and an integer k,
\* 0 < k < 2^7, as a bit string: limb by limb, least significant limb first
MulSmall(bits, k) ==
  LET l1 == BitsToInt(SubSeq(bits, 1, Precision - 2 * LimbBits))
      l2 == BitsToInt(SubSeq(bits, Precision - 2 * LimbBits + 1, Precision - LimbBits))
      l3 == BitsToInt(SubSeq(bits, Precision - LimbBits + 1, Precision))
      p3 == l3 * k
      p2 == l2 * k + p3 \div LimbBase
      p1 == l1 * k + p2 \div LimbBase
  IN IntToBits(p1, BitLength(p1)) \o IntToBits(p2 % LimbBase, LimbBits)
       \o IntToBits(p3 % LimbBase, LimbBits)

\* the double x * k, for a double x and an integer k, 0 < k < 2^7 (the `*'
\* of JavaScript)
JSMul(x, k) ==
  IF x.kind # "num" THEN x
  ELSE LET p    == MulSmall(x.m, k)
           drop == Len(p) - Precision
           low  == SubSeq(p, Precision + 1, Len(p))
           half == [i \in 1..drop |-> IF i = 1 THEN 1 ELSE 0]
       IN IF drop = 0 THEN [kind |-> "num", m |-> p, e |-> x.e]
          ELSE RoundNearestEven(SubSeq(p, 1, Precision), x.e + drop,
                                low # half /\ low[1] = 1, low = half)

\* Math.round of a NaN or an infinity is not an integer: it is kept apart
\* from every integer result
JSNaNInt == 0 - 1

\* Math.round of a non-negative double below 2^31: the nearest integer,
\* a tie going up
JSRound(x) ==
  IF x.kind = "zero" THEN 0
  ELSE IF x.kind # "num" THEN JSNaNInt
  ELSE LET intBits == Precision + x.e
       IN IF intBits < 0 THEN 0
          ELSE IF intBits >= Precision THEN BitsToInt(x.m) * Pow2(x.e)
          ELSE BitsToInt(SubSeq(x.m, 1, intBits)) + x.m[intBits + 1]

(***************************************************************************)
(* The parsed syntax the analyzer reads through ts-morph.                  *)
(*   class  [name, extends, line]     name and extends may be Undefined    *)
(*   throw  [kind, expression, arguments, line]                            *)
(*   catch  [variable, type, tests, line]   variable may be Undefined;     *)
(*          tests are the binary expressions of the block, [operator,      *)
(*          right], in document order                                      *)
(*   file   [path, classes, throws, catches]                               *)
(***************************************************************************)
Class(name, extends, line) == [name |-> name, extends |-> extends, line |-> line]

Throw(kind, expression, arguments, line) ==
  [kind |-> kind, expression |-> expression, arguments |-> arguments, line |-> line]

Catch(variable, type, tests, line) ==
  [variable |-> variable, type |-> type, tests |-> tests, line |-> line]

InstanceOf(right) == [operator |-> "instanceof", right |-> right]

SourceFile(path, content) ==
  [path |-> path, classes |-> content.classes, throws |-> content.throws,
   catches |-> content.catches]

\* throwStmt.getExpression().getText(): the source text of the thrown
\* expression
ExpressionText(throwStmt) ==
  IF throwStmt.kind = "NewExpression"
  THEN "new " \o throwStmt.expression \o "(" \o throwStmt.arguments \o ")"
  ELSE IF throwStmt.kind = "CallExpression"
  THEN throwStmt.expression \o "(" \o throwStmt.arguments \o ")"
  ELSE throwStmt.expression

\* project.getSourceFile(filePath): the index of the file in the project, 0
\* when the project has no such file
getSourceFile(files, filePath) ==
  IF \E i \in 1..Len(files) : files[i].path = filePath
  THEN CHOOSE i \in 1..Len(files) : files[i].path = filePath
  ELSE 0

Location(filePath, line) == [file |-> filePath, line |-> line]

TypedErrorInfo(name, type, filePath, line) ==
  [name |-> name, type |-> type, location |-> Location(filePath, line)]

(***************************************************************************)
(* ErrorAnalyzer.                                                          *)
(***************************************************************************)
errorClasses == <<"Error", "TypedError", "TypeError", "RangeError", "ReferenceError">>

\* a slip: the name is compared for equality
isErrorClass_Exact(className) ==
  \E i \in 1..Len(errorClasses) : className = errorClasses[i]

isErrorClass(className) ==
  \E i \in 1..Len(errorClasses) : Includes(className, errorClasses[i])

\* a slip: any extends clause makes the class an error class
IsErrorDeclaration_AnyHeritage(cls) == cls.extends # Undefined

\* the test of lines 39-40 and 202-203: the class has an extends clause and
\* its text names an error class
IsErrorDeclaration(cls) == cls.extends # Undefined /\ isErrorClass(cls.extends)

findDefinedErrors(files, filePath) ==
  LET f == getSourceFile(files, filePath)
  IN IF f = 0 THEN <<>>
     ELSE LET found == SelectSeq(files[f].classes, IsErrorDeclaration)
          IN [i \in 1..Len(found) |->
                TypedErrorInfo(IF Truthy(found[i].name) THEN found[i].name
                                                        ELSE "AnonymousError",
                               found[i].extends, filePath, found[i].line)]

IsCollectedThrow(throwStmt) == throwStmt.kind \in {"NewExpression", "Identifier"}

findThrownErrors(files, filePath) ==
  LET f == getSourceFile(files, filePath)
  IN IF f = 0 THEN <<>>
     ELSE LET found == SelectSeq(files[f].throws, IsCollectedThrow)
          IN [i \in 1..Len(found) |->
                TypedErrorInfo(found[i].expression,
                               IF found[i].kind = "NewExpression" THEN "thrown"
                                                                  ELSE "rethrown",
                               filePath, found[i].line)]

IsInstanceOf(binExpr) == binExpr.operator = "instanceof"

\* one turn of the forEach of lines 102-136: `errors' is the array built so
\* far for the file
CaughtStep(errors, catchClause, filePath) ==
  IF catchClause.variable = Undefined THEN errors
  ELSE LET tests == SelectSeq(catchClause.tests, IsInstanceOf)
           pushed == errors \o
                     [i \in 1..Len(tests) |->
                        TypedErrorInfo(tests[i].right, catchClause.type,
                                       filePath, catchClause.line)]
       IN IF Len(pushed) = 0
          THEN Append(pushed, TypedErrorInfo(catchClause.variable, catchClause.type,
                                             filePath, catchClause.line))
          ELSE pushed

RECURSIVE CaughtLoop(_, _, _)
CaughtLoop(errors, catches, filePath) ==
  IF catches = <<>> THEN errors
  ELSE CaughtLoop(CaughtStep(errors, Head(catches), filePath), Tail(catches), filePath)

findCaughtErrors(files, filePath) ==
  LET f == getSourceFile(files, filePath)
  IN IF f = 0 THEN <<>> ELSE CaughtLoop(<<>>, files[f].catches, filePath)

\* the ErrorContext of a file of the project
analyzeFileErrors(files, filePath) ==
  [defined |-> findDefinedErrors(files, filePath),
   thrown  |-> findThrownErrors(files, filePath),
   caught  |-> findCaughtErrors(files, filePath)]

\* the value of `definedIn' after the forEach of lines 147-155: each class
\* named errorName assigns its file, so the assignment made last remains
DefinedIn(files, errorName) ==
  LET declares(sourceFile) ==
        \E i \in 1..Len(sourceFile.classes) : sourceFile.classes[i].name = errorName
      hits == SelectSeq(files, declares)
  IN IF hits = <<>> THEN "" ELSE hits[Len(hits)].path

\* lines 158-163: the throw statement counts when the text of its
\* expression includes errorName
ThrowMatches(throwStmt, errorName) == Includes(ExpressionText(throwStmt), errorName)

\* the pushes to `thrownIn' made for one file: its path once per matching
\* throw statement
ThrownInFile(sourceFile, errorName) ==
  LET hits == SelectSeq(sourceFile.throws, LAMBDA t : ThrowMatches(t, errorName))
  IN [i \in 1..Len(hits) |-> sourceFile.path]

\* lines 168-175: the binary expression counts when it is an instanceof
\* whose right side is errorName
TestMatches(binExpr, errorName) ==
  binExpr.operator = "instanceof" /\ binExpr.right = errorName

\* the pushes to `caughtIn' made for one file: its path once per matching
\* test in the block of any catch clause
CaughtInFile(sourceFile, errorName) ==
  LET tests == Flatten([i \in 1..Len(sourceFile.catches) |-> sourceFile.catches[i].tests])
      hits  == SelectSeq(tests, LAMBDA b : TestMatches(b, errorName))
  IN [i \in 1..Len(hits) |-> sourceFile.path]

\* a slip: the test against caughtIn is left out
UncaughtIn_Unfiltered(thrownIn, caughtIn) == thrownIn

\* a slip: an interception in any file clears every raise site
UncaughtIn_ClearedAnywhere(thrownIn, caughtIn) ==
  IF caughtIn = <<>> THEN thrownIn ELSE <<>>

\* lines 179-184: the files that throw but do not catch
UncaughtIn(thrownIn, caughtIn) ==
  SelectSeq(thrownIn, LAMBDA file : ~ArrayIncludes(caughtIn, file))

\* a slip: thrownIn is assigned, as definedIn is, so that the file visited
\* last replaces the files found before
analyzeErrorFlow_LastRaiser(files, errorName) ==
  LET raising  == SelectSeq(files, LAMBDA f : ThrownInFile(f, errorName) # <<>>)
      thrownIn == IF raising = <<>> THEN <<>>
                  ELSE ThrownInFile(raising[Len(raising)], errorName)
      caughtIn == Flatten([i \in 1..Len(files) |-> CaughtInFile(files[i], errorName)])
  IN [error      |-> errorName,
      definedIn  |-> DefinedIn(files, errorName),
      thrownIn   |-> Dedup(thrownIn),
      caughtIn   |-> Dedup(caughtIn),
      uncaughtIn |-> Dedup(UncaughtIn(thrownIn, caughtIn))]

analyzeErrorFlow(files, errorName) ==
  LET thrownIn == Flatten([i \in 1..Len(files) |-> ThrownInFile(files[i], errorName)])
      caughtIn == Flatten([i \in 1..Len(files) |-> CaughtInFile(files[i], errorName)])
  IN [error      |-> errorName,
      definedIn  |-> DefinedIn(files, errorName),
      thrownIn   |-> Dedup(thrownIn),
      caughtIn   |-> Dedup(caughtIn),
      uncaughtIn |-> Dedup(UncaughtIn(thrownIn, caughtIn))]

\* lines 201-209: the names added to `allErrors' for one file, in order
ErrorNamesInFile(sourceFile) ==
  LET found == SelectSeq(sourceFile.classes,
                         LAMBDA cls : IsErrorDeclaration(cls) /\ Truthy(cls.name))
  IN [i \in 1..Len(found) |-> found[i].name]

\* a slip: a name declared again moves to the place of its last declaration
AllErrors_LastOccurrence(files) ==
  LET xs   == Flatten([i \in 1..Len(files) |-> ErrorNamesInFile(files[i])])
      kept == SelectSeq(Indices(Len(xs)),
                        LAMBDA i : \A j \in (i + 1)..Len(xs) : xs[j] # xs[i])
  IN [k \in 1..Len(kept) |-> xs[kept[k]]]

\* the Set `allErrors' in its iteration (insertion) order
AllErrors(files) ==
  Dedup(Flatten([i \in 1..Len(files) |-> ErrorNamesInFile(files[i])]))

\* line 219
CoveredErrors(errorFlows) ==
  Len(SelectSeq(errorFlows, LAMBDA flow : Len(flow.caughtIn) > 0))

\* line 221
Percentage(coveredErrors, totalErrors) ==
  IF totalErrors > 0 THEN JSMul(JSDiv(coveredErrors, totalErrors), 100) ELSE JSZero

\* a slip: the fraction is not scaled to a percentage
Coverage_Unscaled(flow) ==
  IF Len(flow.thrownIn) > 0
  THEN JSDiv(Len(flow.caughtIn), Len(flow.thrownIn))
  ELSE JSZero

\* a slip: the division is not guarded against an empty thrownIn
Coverage_Unguarded(flow) ==
  JSMul(JSDiv(Len(flow.caughtIn), Len(flow.thrownIn)), 100)

\* line 225
Coverage(flow) ==
  IF Len(flow.thrownIn) > 0
  THEN JSMul(JSDiv(Len(flow.caughtIn), Len(flow.thrownIn)), 100)
  ELSE JSZero

\* line 223-227
Details(errorFlows) ==
  [i \in 1..Len(errorFlows) |->
     [error      |-> errorFlows[i].error,
      coverage   |-> Coverage(errorFlows[i]),
      riskyFiles |-> errorFlows[i].uncaughtIn]]

generateCoverageReport(files) ==
  LET allErrors     == AllErrors(files)
      errorFlows    == [i \in 1..Len(allErrors) |-> analyzeErrorFlow(files, allErrors[i])]
      totalErrors   == Len(errorFlows)
      coveredErrors == CoveredErrors(errorFlows)
  IN [totalErrors     |-> totalErrors,
      coveredErrors   |-> coveredErrors,
      uncoveredErrors |-> totalErrors - coveredErrors,
      percentage      |-> JSRound(Percentage(coveredErrors, totalErrors)),
      details         |-> Details(errorFlows)]

(***************************************************************************)
(* The inputs: the files on disk and the names a caller asks about.        *)
(***************************************************************************)
\* the paths the file discovery yields, in the order it yields them
DiscoveredPaths == <<"a.ts", "b.ts", "c.ts", "d.ts">>

Paths == ToSet(DiscoveredPaths)

Targets == {"LoginError", "AuthError", "Error", "AnonymousError", "e"}

Content(classes, throws, catches) ==
  [classes |-> classes, throws |-> throws, catches |-> catches]

\* class LoginError extends Error {}
DeclaringFile ==
  Content(<<Class("LoginError", "Error", 1)>>, <<>>, <<>>)

\* throw new LoginError();
RaisingFile ==
  Content(<<>>, <<Throw("NewExpression", "LoginError", "", 3)>>, <<>>)

\* try { .. } catch (e) { if (e instanceof LoginError) { .. } }
InterceptingFile ==
  Content(<<>>, <<>>, <<Catch("e", "any", <<InstanceOf("LoginError")>>, 5)>>)

\* two declarations, the same error thrown twice, a catch without any test
MixedFile ==
  Content(<<Class("AuthError", "TypedError", 1), Class("LoginError", "Error", 4)>>,
          <<Throw("NewExpression", "AuthError", "", 8),
            Throw("NewExpression", "AuthError", "'again'", 9)>>,
          <<Catch("err", "unknown", <<>>, 12)>>)

\* class LoginError {},  throw wrap(LoginError);  throw new
\* Error('LoginError failed');  catch (e) { if (e.code === 1) .. }
PlainClassFile ==
  Content(<<Class("LoginError", Undefined, 1)>>,
          <<Throw("CallExpression", "wrap", "LoginError", 4),
            Throw("NewExpression", "Error", "'LoginError failed'", 6)>>,
          <<Catch("e", "any", <<[operator |-> "===", right |-> "1"]>>, 7)>>)

\* export default class extends Error {},  catch { if (x instanceof
\* LoginError) throw aLoginError; }
AnonymousFile ==
  Content(<<Class(Undefined, "Error", 1)>>,
          <<Throw("Identifier", "aLoginError", "", 6)>>,
          <<Catch(Undefined, Undefined, <<InstanceOf("LoginError")>>, 4)>>)

\* declares, throws and tests LoginError in an if / else-if chain, followed
\* by a catch clause without any test
GuardedFile ==
  Content(<<Class("LoginError", "Error", 1)>>,
          <<Throw("NewExpression", "LoginError", "", 3)>>,
          <<Catch("e", "any", <<InstanceOf("LoginError"), InstanceOf("AuthError"),
                                InstanceOf("LoginError")>>, 4),
            Catch("err", "any", <<>>, 9)>>)

\* class Session extends errorBase {}, class AuthError extends Error {},
\* class QuotaError extends errors.RangeError {}
AuthFile ==
  Content(<<Class("Session", "errorBase", 1), Class("AuthError", "Error", 2),
            Class("QuotaError", "errors.RangeError", 3)>>,
          <<Throw("NewExpression", "AuthError", "", 5)>>,
          <<Catch("e", "any", <<InstanceOf("AuthError")>>, 6)>>)

\* no class, no throw, no catch
EmptyFile == Content(<<>>, <<>>, <<>>)

FileContents ==
  {DeclaringFile, RaisingFile, InterceptingFile, MixedFile, PlainClassFile,
   AnonymousFile, GuardedFile, AuthFile, EmptyFile}

\* a file that declares `total' error classes E1, E2, .. and tests the first
\* `covered' of them in one catch clause
TypeName(i) == "E" \o ToString(i)

InventoryFile(total, covered) ==
  Content([i \in 1..total |-> Class(TypeName(i), "Error", i)],
          <<>>,
          IF covered = 0 THEN <<>>
          ELSE <<Catch("e", "any", [i \in 1..covered |-> InstanceOf(TypeName(i))],
                       total + 2)>>)

(***************************************************************************)
(* The cache of AI summaries (CacheManager): one cache file per source     *)
(* path, named by the md5 of the path.  Date.now() is counted in           *)
(* milliseconds from the first instant the model looks at; only            *)
(* differences of instants enter the code.                                 *)
(***************************************************************************)
Null == "<null>"

\* the source files the why and docs commands are run on, in glob order
SummaryPaths == <<"src/a/index.ts", "src/b/index.ts", "src/main.ts">>

\* what readFileSync finds at a source path: one of two contents, or nothing
\* that can be read (the file is deleted or unreadable)
Unreadable == "<unreadable>"

Contents == {"v1", "v2"}

FileStates == Contents \cup {Unreadable}

\* the constructor's default ttl
defaultTTL == 7 * 24 * 60 * 60 * 1000

\* the time-to-live a manager can be constructed with
TTLs == {defaultTTL, 1}

\* the instants at which something happens
Instants == {0, 1, defaultTTL, defaultTTL + 1, defaultTTL + 2}

\* the contexts an AI provider returns
AIContexts == {"summary one", "summary two"}

\* crypto.createHash('md5'): distinct contents have distinct digests
md5(content) == "md5:" \o content

getFileHash(files, filePath) ==
  IF files[filePath] = Unreadable THEN "" ELSE md5(files[filePath])

\* the states of a cache file: absent, not parsable as JSON, or an entry
NoCacheFile == [kind |-> "none"]

CorruptCacheFile == [kind |-> "corrupt"]

CacheEntry(summary, fileHash, timestamp, ttl) ==
  [kind |-> "entry", context |-> summary, fileHash |-> fileHash,
   timestamp |-> timestamp, ttl |-> ttl]

invalidate(dir, filePath) == [dir EXCEPT ![filePath] = NoCacheFile]

\* a slip: an entry whose age has reached the ttl is expired already
CacheManager_get_ExpiresAtTTL(dir, files, now, filePath) ==
  LET entry == dir[filePath]
      currentHash == getFileHash(files, filePath)
  IN  IF entry.kind = "none" THEN [value |-> Null, dir |-> dir]
      ELSE IF entry.kind = "corrupt"
      THEN [value |-> Null, dir |-> invalidate(dir, filePath)]
      ELSE IF now - entry.timestamp >= entry.ttl
      THEN [value |-> Null, dir |-> invalidate(dir, filePath)]
      ELSE IF Truthy(currentHash) /\ currentHash # entry.fileHash
      THEN [value |-> Null, dir |-> invalidate(dir, filePath)]
      ELSE [value |-> entry.context, dir |-> dir]

\* get: the context it returns and the cache directory it leaves
CacheManager_get(dir, files, now, filePath) ==
  LET entry == dir[filePath]
      currentHash == getFileHash(files, filePath)
  IN  IF entry.kind = "none" THEN [value |-> Null, dir |-> dir]
      ELSE IF entry.kind = "corrupt"
      THEN [value |-> Null, dir |-> invalidate(dir, filePath)]
      ELSE IF now - entry.timestamp > entry.ttl
      THEN [value |-> Null, dir |-> invalidate(dir, filePath)]
      ELSE IF Truthy(currentHash) /\ currentHash # entry.fileHash
      THEN [value |-> Null, dir |-> invalidate(dir, filePath)]
      ELSE [value |-> entry.context, dir |-> dir]

\* set: the cache directory it leaves
CacheManager_set(dir, files, now, ttl, filePath, summary) ==
  [dir EXCEPT ![filePath] =
     CacheEntry(summary, getFileHash(files, filePath), now, ttl)]

(***************************************************************************)
(* The AI section of the why and docs commands, and the markdown           *)
(* generator of the docs command.                                          *)
(***************************************************************************)
\* generateContext throws
Failure == "<failure>"

\* what the call of the AI provider ends with
ProviderResults == {Failure, "summary two"}

\* a slip: the summary is stored whatever the cache option says
LoadOrGenerate_AlwaysStores(dir, files, now, useCache, filePath, generated) ==
  LET looked == IF useCache THEN CacheManager_get(dir, files, now, filePath)
                ELSE [value |-> Null, dir |-> dir]
  IN  IF looked.value # Null
      THEN [aiContext |-> looked.value, dir |-> looked.dir, calls |-> <<>>]
      ELSE IF files[filePath] = Unreadable
      THEN [aiContext |-> Null, dir |-> looked.dir, calls |-> <<>>]
      ELSE IF generated = Failure
      THEN [aiContext |-> Null, dir |-> looked.dir, calls |-> <<filePath>>]
      ELSE [aiContext |-> generated,
            dir |-> CacheManager_set(looked.dir, files, now, defaultTTL,
                                     filePath, generated),
            calls |-> <<filePath>>]

\* a slip: the provider is asked although the cache has answered
LoadOrGenerate_AlwaysAsks(dir, files, now, useCache, filePath, generated) ==
  LET looked == IF useCache THEN CacheManager_get(dir, files, now, filePath)
                ELSE [value |-> Null, dir |-> dir]
  IN  IF files[filePath] = Unreadable
      THEN [aiContext |-> looked.value, dir |-> looked.dir, calls |-> <<>>]
      ELSE IF generated = Failure
      THEN [aiContext |-> looked.value, dir |-> looked.dir, calls |-> <<filePath>>]
      ELSE [aiContext |-> generated,
            dir |-> IF useCache
                    THEN CacheManager_set(looked.dir, files, now, defaultTTL,
                                          filePath, generated)
                    ELSE looked.dir,
            calls |-> <<filePath>>]

\* "Try to get from cache first", "Generate AI context if not in cache":
\* the summary the command ends with, the cache directory it leaves and the
\* files it has sent to the provider
LoadOrGenerate(dir, files, now, useCache, filePath, generated) ==
  LET looked == IF useCache THEN CacheManager_get(dir, files, now, filePath)
                ELSE [value |-> Null, dir |-> dir]
  IN  IF looked.value # Null
      THEN [aiContext |-> looked.value, dir |-> looked.dir, calls |-> <<>>]
      ELSE IF files[filePath] = Unreadable
      THEN [aiContext |-> Null, dir |-> looked.dir, calls |-> <<>>]
      ELSE IF generated = Failure
      THEN [aiContext |-> Null, dir |-> looked.dir, calls |-> <<filePath>>]
      ELSE [aiContext |-> generated,
            dir |-> IF useCache
                    THEN CacheManager_set(looked.dir, files, now, defaultTTL,
                                          filePath, generated)
                    ELSE looked.dir,
            calls |-> <<filePath>>]

\* String.prototype.lastIndexOf, counted from 1, 0 when there is none
LastIndexOf(s, c) ==
  LET at == {i \in 1..Len(s) : SubSeq(s, i, i) = c}
  IN  IF at = {} THEN 0 ELSE CHOOSE i \in at : \A j \in at : j <= i

\* path.basename(p)
basename(p) == SubSeq(p, LastIndexOf(p, "/") + 1, Len(p))

\* path.extname(p)
extname(p) ==
  LET dot == LastIndexOf(basename(p), ".")
  IN  IF dot <= 1 THEN "" ELSE SubSeq(basename(p), dot, Len(basename(p)))

\* path.basename(p, ext)
basenameWithout(p, ext) ==
  LET base == basename(p)
  IN  IF /\ ext # ""
         /\ Len(base) > Len(ext)
         /\ SubSeq(base, Len(base) - Len(ext) + 1, Len(base)) = ext
      THEN SubSeq(base, 1, Len(base) - Len(ext))
      ELSE base

\* String.prototype.replace(t, ''): the first occurrence of t is removed
RemoveFirst(s, t) ==
  LET at == {i \in 0..(Len(s) - Len(t)) : SubSeq(s, i + 1, i + Len(t)) = t}
      first == CHOOSE i \in at : \A j \in at : i <= j
  IN  IF at = {} THEN s
      ELSE SubSeq(s, 1, first) \o SubSeq(s, first + Len(t) + 1, Len(s))

\* a file of the output directory: the markdown of a source file with its
\* summary, or the index with its entries
Document(source, summary) ==
  [source |-> source, summary |-> summary, entries |-> <<>>]

IndexDocument(entries) ==
  [source |-> "", summary |-> Null, entries |-> entries]

\* fs.writeFileSync(path.join(outputDir, name), ..)
WriteFile(dir, name, document) ==
  [n \in (DOMAIN dir) \cup {name} |-> IF n = name THEN document ELSE dir[n]]

\* writeMarkdown: the path it returns, relative to the output directory,
\* and the output directory it leaves
MarkdownGenerator_writeMarkdown(dir, filePath, summary) ==
  LET filename == basenameWithout(filePath, extname(filePath)) \o ".md"
  IN  [outputPath |-> filename,
       dir |-> WriteFile(dir, filename, Document(filePath, summary))]

IndexEntry(file) ==
  "- [" \o RemoveFirst(basename(file), ".md") \o "](./" \o basename(file) \o ")"

\* generateIndex: the output directory it leaves
MarkdownGenerator_generateIndex(dir, files) ==
  WriteFile(dir, "README.md",
            IndexDocument([i \in 1..Len(files) |-> IndexEntry(files[i])]))

(***************************************************************************)
(* The code analyzer (CodeAnalyzer): what ts-morph sees in a source file   *)
(* when a function is searched, the function declarations, the declared    *)
(* variables with the kind of their initializer, and the classes with      *)
(* their methods.                                                          *)
(***************************************************************************)
Function(name, line) == [name |-> name, line |-> line]

Variable(name, initializer, line) ==
  [name |-> name, initializer |-> initializer, line |-> line]

Method(name, line) == [name |-> name, line |-> line]

ClassWithMethods(name, methods) == [name |-> name, methods |-> methods]

Code(functions, variables, classes) ==
  [functions |-> functions, variables |-> variables, classes |-> classes]

\* a source file of the code analyzer's project
CodeFile(path, content) == [path |-> path, content |-> content]

\* the contents the files of a project have
CodeContents ==
  {Code(<<>>, <<>>, <<>>),
   Code(<<Function("render", 2), Function("parse", 8)>>, <<>>, <<>>),
   Code(<<>>, <<Variable("parse", "ArrowFunction", 3)>>, <<>>),
   Code(<<>>, <<Variable("render", "FunctionExpression", 4)>>, <<>>),
   Code(<<>>, <<Variable("parse", "NumericLiteral", 1),
                Variable("limit", Undefined, 2)>>, <<>>),
   Code(<<>>, <<>>, <<ClassWithMethods("Parser", <<Method("parse", 5)>>)>>),
   Code(<<Function("render", 1)>>, <<>>,
        <<ClassWithMethods("Store", <<>>),
          ClassWithMethods("Parser", <<Method("load", 6), Method("parse", 9)>>)>>)}

FunctionNames == {"parse", "render", "load", "limit"}

\* the null that findFunctionDefinition returns; lines are counted from 1
NotFound == [file |-> "", line |-> 0]

\* sourceFile.getFunction(name): the line of the first function declaration
\* of the name, 0 when getFunction returns undefined
getFunction(sourceFile, functionName) ==
  LET found == {i \in 1..Len(sourceFile.content.functions) :
                  sourceFile.content.functions[i].name = functionName}
  IN  IF found = {} THEN 0
      ELSE sourceFile.content.functions[CHOOSE i \in found : \A j \in found : i <= j].line

\* the loop over getVariableDeclarations(): the line of the first variable
\* of the name whose initializer is an arrow function or a function
\* expression, 0 when the loop ends without one
FunctionVariable(sourceFile, functionName) ==
  LET found == {i \in 1..Len(sourceFile.content.variables) :
                  /\ sourceFile.content.variables[i].name = functionName
                  /\ Truthy(sourceFile.content.variables[i].initializer)
                  /\ sourceFile.content.variables[i].initializer
                       \in {"ArrowFunction", "FunctionExpression"}}
  IN  IF found = {} THEN 0
      ELSE sourceFile.content.variables[CHOOSE i \in found : \A j \in found : i <= j].line

\* findFunctionDefinition over the source files from the i-th on; the
\* callback of getClasses().forEach returns its location to forEach, which
\* drops it, and the loop goes on to the next file
RECURSIVE FindFrom(_, _, _)
FindFrom(files, functionName, i) ==
  IF i > Len(files) THEN NotFound
  ELSE IF getFunction(files[i], functionName) # 0
  THEN [file |-> files[i].path, line |-> getFunction(files[i], functionName)]
  ELSE IF FunctionVariable(files[i], functionName) # 0
  THEN [file |-> files[i].path, line |-> FunctionVariable(files[i], functionName)]
  ELSE FindFrom(files, functionName, i + 1)

findFunctionDefinition(files, functionName) == FindFrom(files, functionName, 1)

(***************************************************************************)
(* The state: the source files of the analyzer's project in iteration      *)
(* order, and the outcome of the operation called last; for a run of the   *)
(* `errors' or `coverage' command, the command, the place its handler has  *)
(* reached, the paths its glob has found, the lines it has written and the *)
(* status it has exited with; for the AI summaries, the clock, the source  *)
(* files on disk, the cache directory, the summary the caller holds, the   *)
(* options of the why or docs command, the files the docs command has      *)
(* processed and sent to the AI provider, and what it has generated and    *)
(* written; for the code analyzer, its project and the definition it   *)
(* found last.                                                             *)
(***************************************************************************)
VARIABLES sourceFiles, lastOp, argument, failed, context, flow, report,
          pc, command, tsFiles, output, exitCode,
          clock, disk, cacheDir, aiContext, options, processed, aiCalls,
          generatedFiles, outputDir, project, definition

vars == <<sourceFiles, lastOp, argument, failed, context, flow, report,
          pc, command, tsFiles, output, exitCode,
          clock, disk, cacheDir, aiContext, options, processed, aiCalls,
          generatedFiles, outputDir, project, definition>>

cliVars == <<pc, command, tsFiles, output, exitCode>>

analysisVars == <<sourceFiles, failed, context, flow, report>>

cacheVars == <<clock, disk, cacheDir, aiContext>>

docsVars == <<options, processed, aiCalls, generatedFiles, outputDir>>

codeVars == <<project, definition>>

toolVars == <<cacheVars, docsVars, codeVars>>

NoContext == [defined |-> <<>>, thrown |-> <<>>, caught |-> <<>>]

NoFlow ==
  [error |-> "", definedIn |-> "", thrownIn |-> <<>>, caughtIn |-> <<>>,
   uncaughtIn |-> <<>>]

NoReport ==
  [totalErrors |-> 0, coveredErrors |-> 0, uncoveredErrors |-> 0,
   percentage |-> 0, details |-> <<>>]

NoCommand == [name |-> "", errorName |-> ""]

\* process.exit has not been called
NoExit == 0 - 1

\* no command handler has started
NoCommandRunning ==
  /\ pc = "idle"
  /\ command = NoCommand
  /\ tsFiles = <<>>
  /\ output = <<>>
  /\ exitCode = NoExit

\* nothing is cached and every source file holds its first content
NothingCached ==
  /\ clock = 0
  /\ disk = [filePath \in ToSet(SummaryPaths) |-> "v1"]
  /\ cacheDir = [filePath \in ToSet(SummaryPaths) |-> NoCacheFile]
  /\ aiContext = Null

\* the docs command has generated nothing
NoOptions == [ai |-> TRUE, cache |-> TRUE, apiKey |-> FALSE]

NothingGenerated ==
  /\ options = NoOptions
  /\ processed = 0
  /\ aiCalls = <<>>
  /\ generatedFiles = <<>>
  /\ outputDir = <<>>

\* the code analyzer's project is empty
NoProject ==
  /\ project = <<>>
  /\ definition = NotFound

Init ==
  /\ sourceFiles = <<>>
  /\ lastOp = "constructor"
  /\ argument = ""
  /\ failed = FALSE
  /\ context = NoContext
  /\ flow = NoFlow
  /\ report = NoReport
  /\ NoCommandRunning
  /\ NothingCached
  /\ NothingGenerated
  /\ NoProject

\* project.addSourceFileAtPath: a path the project already holds keeps its
\* parsed file, a new one is parsed and added
AddSourceFile(filePath, content) ==
  /\ Len(sourceFiles) < MaxFiles
  /\ sourceFiles' = IF getSourceFile(sourceFiles, filePath) # 0 THEN sourceFiles
                    ELSE Append(sourceFiles, SourceFile(filePath, content))
  /\ lastOp' = "addSourceFile"
  /\ argument' = filePath
  /\ failed' = FALSE
  /\ context' = NoContext
  /\ flow' = NoFlow
  /\ report' = NoReport

\* analyzeFileErrors throws when the project has no such file
AnalyzeFileErrors(filePath) ==
  /\ lastOp' = "analyzeFileErrors"
  /\ argument' = filePath
  /\ failed' = (getSourceFile(sourceFiles, filePath) = 0)
  /\ context' = IF failed' THEN NoContext ELSE analyzeFileErrors(sourceFiles, filePath)
  /\ flow' = NoFlow
  /\ report' = NoReport
  /\ UNCHANGED sourceFiles

\* a slip: the analysis removes the files it has visited from the project
AnalyzeErrorFlow_Consuming(errorName) ==
  /\ lastOp' = "analyzeErrorFlow"
  /\ argument' = errorName
  /\ failed' = FALSE
  /\ flow' = analyzeErrorFlow(sourceFiles, errorName)
  /\ context' = NoContext
  /\ report' = NoReport
  /\ sourceFiles' = <<>>

AnalyzeErrorFlow(errorName) ==
  /\ lastOp' = "analyzeErrorFlow"
  /\ argument' = errorName
  /\ failed' = FALSE
  /\ flow' = analyzeErrorFlow(sourceFiles, errorName)
  /\ context' = NoContext
  /\ report' = NoReport
  /\ UNCHANGED sourceFiles

GenerateCoverageReport ==
  /\ lastOp' = "generateCoverageReport"
  /\ argument' = ""
  /\ failed' = FALSE
  /\ report' = generateCoverageReport(sourceFiles)
  /\ context' = NoContext
  /\ flow' = NoFlow
  /\ UNCHANGED sourceFiles

\* the paths a caller adds next: one the project holds already, or the next
\* discovered one
AddablePaths ==
  {sourceFiles[i].path : i \in 1..Len(sourceFiles)}
    \cup (IF Len(sourceFiles) < Len(DiscoveredPaths)
          THEN {DiscoveredPaths[Len(sourceFiles) + 1]} ELSE {})

\* a caller adds the files it discovered, one after the other (the forEach
\* over the glob result), or adds a path again
AddDiscoveredFile(filePath, content) ==
  /\ filePath \in AddablePaths
  /\ AddSourceFile(filePath, content)
  /\ UNCHANGED <<cliVars, toolVars>>

\* a caller of the three analyses of the public interface
CallAnalyzeFileErrors(filePath) ==
  AnalyzeFileErrors(filePath) /\ UNCHANGED <<cliVars, toolVars>>

CallAnalyzeErrorFlow(errorName) ==
  AnalyzeErrorFlow(errorName) /\ UNCHANGED <<cliVars, toolVars>>

CallGenerateCoverageReport ==
  GenerateCoverageReport /\ UNCHANGED <<cliVars, toolVars>>

Next ==
  \/ \E filePath \in Paths, content \in FileContents :
       AddDiscoveredFile(filePath, content)
  \/ \E filePath \in Paths : CallAnalyzeFileErrors(filePath)
  \/ \E errorName \in Targets : CallAnalyzeErrorFlow(errorName)
  \/ CallGenerateCoverageReport

Spec == Init /\ [][Next]_vars

(***************************************************************************)
(* The coverage report over error inventories of every size: the project   *)
(* holds one file declaring up to MaxTypes error classes.                  *)
(***************************************************************************)
InitInventory ==
  /\ \E total \in 0..MaxTypes : \E covered \in 0..total :
       sourceFiles = <<SourceFile("a.ts", InventoryFile(total, covered))>>
  /\ lastOp = "addSourceFile"
  /\ argument = "a.ts"
  /\ failed = FALSE
  /\ context = NoContext
  /\ flow = NoFlow
  /\ report = NoReport
  /\ NoCommandRunning
  /\ NothingCached
  /\ NothingGenerated
  /\ NoProject

NextInventory == CallGenerateCoverageReport

SpecInventory == InitInventory /\ [][NextInventory]_vars

(***************************************************************************)
(* The analysis of one file over the shapes a file can have: the project   *)
(* holds one file whose classes, throw statements and catch clauses are    *)
(* drawn independently.                                                    *)
(***************************************************************************)
ClassLists ==
  {<<>>,
   <<Class("Session", Undefined, 1)>>,
   <<Class("Session", "errorBase", 1)>>,
   <<Class("Session", "Base", 1), Class("Store", Undefined, 2)>>,
   <<Class("LoginError", "Error", 1)>>,
   <<Class("Session", "Base", 1), Class("LoginError", "TypeError", 2)>>}

ThrowLists ==
  {<<>>,
   <<Throw("NewExpression", "LoginError", "", 4)>>,
   <<Throw("Identifier", "err", "", 4)>>,
   <<Throw("CallExpression", "wrap", "err", 4), Throw("NewExpression", "Error", "", 5)>>}

CatchLists ==
  {<<>>,
   <<Catch("e", "any", <<>>, 7)>>,
   <<Catch("e", "unknown", <<InstanceOf("LoginError")>>, 7)>>,
   <<Catch(Undefined, Undefined, <<>>, 7)>>}

InitFile ==
  /\ \E classes \in ClassLists, throws \in ThrowLists, catches \in CatchLists :
       sourceFiles = <<SourceFile("a.ts", Content(classes, throws, catches))>>
  /\ lastOp = "addSourceFile"
  /\ argument = "a.ts"
  /\ failed = FALSE
  /\ context = NoContext
  /\ flow = NoFlow
  /\ report = NoReport
  /\ NoCommandRunning
  /\ NothingCached
  /\ NothingGenerated
  /\ NoProject

NextFile == \E filePath \in {"a.ts", "b.ts"} : CallAnalyzeFileErrors(filePath)

SpecFile == InitFile /\ [][NextFile]_vars

(***************************************************************************)
(* The `errors' and `coverage' commands (src/src/cli/commands/errors.ts,   *)
(* src/src/cli/ui.ts) and the renderer they print the result with          *)
(* (ContextGenerator).  A line of output is the UI method that wrote it    *)
(* and its text, without colours and pictographs.                          *)
(***************************************************************************)
Line(method, text) == [method |-> method, text |-> text]

NewLine == Line("newline", "")

\* ui.list(items), and the console.log of each item of a forEach
Lines(method, items) == [i \in 1..Len(items) |-> Line(method, items[i])]

ContextGenerator_generateErrorFlow(f) ==
  <<Line("header", "Error Flow: " \o f.error),
    NewLine,
    Line("info", "Defined in: " \o (IF Truthy(f.definedIn) THEN f.definedIn
                                                           ELSE "(not found)")),
    NewLine>>
  \o (IF Len(f.thrownIn) > 0
      THEN <<Line("section", "Thrown in")>> \o Lines("list", f.thrownIn) ELSE <<>>)
  \o (IF Len(f.caughtIn) > 0
      THEN <<Line("section", "Caught in")>> \o Lines("list", f.caughtIn) ELSE <<>>)
  \o (IF Len(f.uncaughtIn) > 0
      THEN <<Line("section", "Not caught in (risky!)")>> \o Lines("log", f.uncaughtIn)
      ELSE <<Line("success", "All throws are properly caught!")>>)
  \o <<NewLine>>

\* the lines written for one risky error: the warning and at most three of
\* its risky files
Recommendation(detail) ==
  <<Line("warning", detail.error \o " is not caught in "
                      \o ToString(Len(detail.riskyFiles)) \o " file(s)")>>
  \o Lines("log", SubSeq(detail.riskyFiles, 1,
                         IF Len(detail.riskyFiles) < 3 THEN Len(detail.riskyFiles) ELSE 3))

ContextGenerator_generateCoverageReport(r) ==
  LET riskyErrors == SelectSeq(r.details, LAMBDA d : Len(d.riskyFiles) > 0)
  IN <<Line("header", "Error Coverage Report"),
       NewLine,
       Line("section", "Summary"),
       Line("info", "Total errors: " \o ToString(r.totalErrors)),
       Line("info", "Covered: " \o ToString(r.coveredErrors)),
       Line("info", "Uncovered: " \o ToString(r.uncoveredErrors)),
       Line("info", "Coverage: " \o ToString(r.percentage) \o "%"),
       NewLine>>
     \o (IF Len(r.details) > 0
         THEN <<Line("section", "Error Details")>>
              \o [i \in 1..Len(r.details) |->
                    Line("table", r.details[i].error \o " "
                                    \o ToString(JSRound(r.details[i].coverage)) \o "% "
                                    \o ToString(Len(r.details[i].riskyFiles)))]
         ELSE <<>>)
     \o <<NewLine, Line("section", "Recommendations")>>
     \o (IF Len(riskyErrors) > 0
         THEN Flatten([i \in 1..Len(riskyErrors) |-> Recommendation(riskyErrors[i])])
         ELSE <<Line("success", "All errors are properly handled!")>>)
     \o <<NewLine>>

\* the files on disk a command run meets
CommandContents ==
  {DeclaringFile, RaisingFile, InterceptingFile, GuardedFile, EmptyFile}

\* the text of the error addSourceFileAtPath throws for a file it cannot read
SourceUnavailable(filePath) == "File not found: " \o filePath

\* the results a glob can have: the first n discovered paths
GlobResults == {SubSeq(DiscoveredPaths, 1, n) : n \in 0..MaxFiles}

\* the next file of the glob result: the handler adds them in order and
\* stops at the first one that fails
NextDiscovered == tsFiles[Len(sourceFiles) + 1]

\* errors.ts lines 15-31: the handler starts, constructs the analyzer and
\* awaits the glob
StartErrors(errorName) ==
  /\ pc = "idle"
  /\ pc' = "adding"
  /\ command' = [name |-> "errors", errorName |-> errorName]
  /\ tsFiles' \in GlobResults
  /\ output' = <<Line("spinner", "Analyzing error flow for " \o errorName \o "...")>>
  /\ UNCHANGED <<sourceFiles, lastOp, argument, failed, context, flow, report, exitCode,
               toolVars>>

\* ui.ts lines 99-115
StartCoverage ==
  /\ pc = "idle"
  /\ pc' = "adding"
  /\ command' = [name |-> "coverage", errorName |-> ""]
  /\ tsFiles' \in GlobResults
  /\ output' = <<Line("spinner", "Analyzing error coverage...")>>
  /\ UNCHANGED <<sourceFiles, lastOp, argument, failed, context, flow, report, exitCode,
               toolVars>>

\* one turn of tsFiles.forEach: the file is read, parsed and added
CommandAddFile(content) ==
  /\ pc = "adding"
  /\ Len(sourceFiles) < Len(tsFiles)
  /\ AddSourceFile(NextDiscovered, content)
  /\ UNCHANGED <<cliVars, toolVars>>

\* one turn of tsFiles.forEach in which addSourceFile throws: the exception
\* leaves the forEach and the try block and reaches the catch of the handler
CommandAddFails ==
  /\ pc = "adding"
  /\ Len(sourceFiles) < Len(tsFiles)
  /\ lastOp' = "addSourceFile"
  /\ argument' = NextDiscovered
  /\ failed' = TRUE
  /\ context' = NoContext
  /\ flow' = NoFlow
  /\ report' = NoReport
  /\ output' = output \o <<Line("fail", ""),
                           Line("error", "Error: " \o SourceUnavailable(NextDiscovered))>>
  /\ exitCode' = 1
  /\ pc' = "exited"
  /\ UNCHANGED <<sourceFiles, command, tsFiles, toolVars>>

\* a slip: the analysis does not wait for the end of the forEach
ErrorsAnalyze_Eager ==
  /\ pc = "adding"
  /\ command.name = "errors"
  /\ AnalyzeErrorFlow(command.errorName)
  /\ output' = output \o <<Line("succeed", "Analysis complete!")>>
                      \o ContextGenerator_generateErrorFlow(flow')
  /\ pc' = "done"
  /\ UNCHANGED <<command, tsFiles, exitCode, toolVars>>

\* errors.ts lines 37-44: the forEach has returned, every discovered file
\* has been added
ErrorsAnalyze ==
  /\ pc = "adding"
  /\ command.name = "errors"
  /\ Len(sourceFiles) = Len(tsFiles)
  /\ AnalyzeErrorFlow(command.errorName)
  /\ output' = output \o <<Line("succeed", "Analysis complete!")>>
                      \o ContextGenerator_generateErrorFlow(flow')
  /\ pc' = "done"
  /\ UNCHANGED <<command, tsFiles, exitCode, toolVars>>

\* ui.ts lines 121-128
CoverageAnalyze ==
  /\ pc = "adding"
  /\ command.name = "coverage"
  /\ Len(sourceFiles) = Len(tsFiles)
  /\ GenerateCoverageReport
  /\ output' = output \o <<Line("succeed", "Coverage analysis complete!")>>
                      \o ContextGenerator_generateCoverageReport(report')
  /\ pc' = "done"
  /\ UNCHANGED <<command, tsFiles, exitCode, toolVars>>

NextCommands ==
  \/ \E errorName \in Targets : StartErrors(errorName)
  \/ StartCoverage
  \/ \E content \in CommandContents : CommandAddFile(content)
  \/ CommandAddFails
  \/ ErrorsAnalyze
  \/ CoverageAnalyze

SpecCommands == Init /\ [][NextCommands]_vars

(***************************************************************************)
(* The cache manager under its callers and its environment: set and get    *)
(* of the summary of one source file, while time passes, the source file   *)
(* is rewritten or deleted, and the cache file is damaged.                 *)
(***************************************************************************)
CachedPaths == {"src/main.ts"}

\* cacheManager.set(filePath, aiContext) of a manager constructed with ttl
CacheSet(filePath, summary, ttl) ==
  /\ lastOp' = "set"
  /\ argument' = filePath
  /\ cacheDir' = CacheManager_set(cacheDir, disk, clock, ttl, filePath, summary)
  /\ UNCHANGED <<clock, disk, aiContext>>
  /\ UNCHANGED <<analysisVars, cliVars, docsVars, codeVars>>

\* aiContext = cacheManager.get(filePath)
CacheGet(filePath) ==
  /\ lastOp' = "get"
  /\ argument' = filePath
  /\ aiContext' = CacheManager_get(cacheDir, disk, clock, filePath).value
  /\ cacheDir' = CacheManager_get(cacheDir, disk, clock, filePath).dir
  /\ UNCHANGED <<clock, disk>>
  /\ UNCHANGED <<analysisVars, cliVars, docsVars, codeVars>>

\* time passes
Tick ==
  /\ clock' \in {t \in Instants : t > clock}
  /\ lastOp' = "tick"
  /\ UNCHANGED <<argument, disk, cacheDir, aiContext>>
  /\ UNCHANGED <<analysisVars, cliVars, docsVars, codeVars>>

\* the source file is rewritten, deleted or restored
WriteSource(filePath, state) ==
  /\ state # disk[filePath]
  /\ disk' = [disk EXCEPT ![filePath] = state]
  /\ lastOp' = "writeSource"
  /\ argument' = filePath
  /\ UNCHANGED <<clock, cacheDir, aiContext>>
  /\ UNCHANGED <<analysisVars, cliVars, docsVars, codeVars>>

\* the cache file of an entry is damaged
DamageCacheFile(filePath) ==
  /\ cacheDir[filePath].kind = "entry"
  /\ cacheDir' = [cacheDir EXCEPT ![filePath] = CorruptCacheFile]
  /\ lastOp' = "damageCacheFile"
  /\ argument' = filePath
  /\ UNCHANGED <<clock, disk, aiContext>>
  /\ UNCHANGED <<analysisVars, cliVars, docsVars, codeVars>>

NextCache ==
  \/ \E filePath \in CachedPaths, summary \in AIContexts, ttl \in TTLs :
       CacheSet(filePath, summary, ttl)
  \/ \E filePath \in CachedPaths : CacheGet(filePath)
  \/ Tick
  \/ \E filePath \in CachedPaths, state \in FileStates :
       WriteSource(filePath, state)
  \/ \E filePath \in CachedPaths : DamageCacheFile(filePath)

SpecCache == Init /\ [][NextCache]_vars

(***************************************************************************)
(* The code analyzer under a caller that adds source files and searches    *)
(* functions.                                                              *)
(***************************************************************************)
CodePaths == {"a.ts", "b.ts"}

\* codeAnalyzer.addSourceFile(filePath): a path the project already holds
\* keeps its parsed file
CodeAddSourceFile(filePath, content) ==
  /\ project' = (IF \E i \in 1..Len(project) : project[i].path = filePath
                 THEN project
                 ELSE Append(project, CodeFile(filePath, content)))
  /\ lastOp' = "addSourceFile"
  /\ argument' = filePath
  /\ UNCHANGED definition
  /\ UNCHANGED <<analysisVars, cliVars, cacheVars, docsVars>>

\* definition = codeAnalyzer.findFunctionDefinition(functionName)
FindFunctionDefinition(functionName) ==
  /\ definition' = findFunctionDefinition(project, functionName)
  /\ lastOp' = "findFunctionDefinition"
  /\ argument' = functionName
  /\ UNCHANGED project
  /\ UNCHANGED <<analysisVars, cliVars, cacheVars, docsVars>>

NextCode ==
  \/ \E filePath \in CodePaths, content \in CodeContents :
       CodeAddSourceFile(filePath, content)
  \/ \E functionName \in FunctionNames : FindFunctionDefinition(functionName)

SpecCode == Init /\ [][NextCode]_vars

(***************************************************************************)
(* One run of the why command or of the docs command over a cache that     *)
(* earlier runs have left: the entry of a path is absent, damaged, or was  *)
(* written for one of the contents, a ttl ago or longer.                   *)
(***************************************************************************)
CacheFileStates ==
  {NoCacheFile, CorruptCacheFile}
    \cup {CacheEntry("summary one", md5(content), timestamp, defaultTTL) :
            content \in Contents, timestamp \in {0, 1}}

InitSummaries ==
  /\ sourceFiles = <<>>
  /\ lastOp = "constructor"
  /\ argument = ""
  /\ failed = FALSE
  /\ context = NoContext
  /\ flow = NoFlow
  /\ report = NoReport
  /\ NoCommandRunning
  /\ clock = defaultTTL + 1
  /\ \E state \in {"v1", Unreadable} :
       disk = [filePath \in ToSet(SummaryPaths) |->
                 IF filePath = "src/main.ts" THEN state ELSE "v1"]
  /\ \E first \in {NoCacheFile, CacheEntry("summary one", md5("v1"), 1, defaultTTL)},
        last \in CacheFileStates :
       cacheDir = [filePath \in ToSet(SummaryPaths) |->
                     IF filePath = "src/a/index.ts" THEN first
                     ELSE IF filePath = "src/main.ts" THEN last
                     ELSE NoCacheFile]
  /\ aiContext = Null
  /\ NothingGenerated
  /\ NoProject

Options == [ai : BOOLEAN, cache : BOOLEAN, apiKey : BOOLEAN]

\* an AIAnalyzer is used: AI is not switched off and a key is provided
UsesAI(opts) == opts.ai /\ opts.apiKey

\* why.ts lines 121-173: what the AI section writes
WhyAILines(opts, step) ==
  IF ~opts.ai THEN <<>>
  ELSE IF ~opts.apiKey
  THEN <<Line("warning", "Anthropic API key not provided. Skipping AI analysis. Use --anthropic-key or set ANTHROPIC_API_KEY")>>
  ELSE IF step.calls = <<>> /\ step.aiContext # Null
  THEN <<Line("succeed", "AI context loaded from cache!")>>
  ELSE IF step.aiContext # Null
  THEN <<Line("succeed", "AI context generated!")>>
  ELSE <<Line("fail", "AI analysis failed")>>

\* why <target> for a target that is a file: the analyses, the AI section
\* and the rendering
WhyFile(target, opts, generated) ==
  /\ pc = "idle"
  /\ disk[target] # Unreadable
  /\ LET step == IF UsesAI(opts)
                 THEN LoadOrGenerate(cacheDir, disk, clock, opts.cache, target,
                                     generated)
                 ELSE [aiContext |-> Null, dir |-> cacheDir, calls |-> <<>>]
     IN  /\ aiContext' = step.aiContext
         /\ cacheDir' = step.dir
         /\ aiCalls' = step.calls
         /\ output' = <<Line("succeed", "Analysis complete!")>>
                        \o WhyAILines(opts, step)
                        \o (IF step.aiContext # Null
                            THEN <<Line("header", "AI Context Summary"),
                                   Line("log", step.aiContext)>>
                            ELSE <<>>)
                        \o <<Line("header", "Context: " \o target)>>
  /\ command' = [name |-> "why", errorName |-> ""]
  /\ options' = opts
  /\ pc' = "done"
  /\ lastOp' = "why"
  /\ argument' = target
  /\ UNCHANGED <<clock, disk, tsFiles, exitCode, processed, generatedFiles, outputDir>>
  /\ UNCHANGED <<analysisVars, codeVars>>

\* why <target> for a target that is no file and that the function search
\* does not find (lines 35-50)
WhyNotFound(target, opts) ==
  /\ pc = "idle"
  /\ disk[target] = Unreadable
  /\ findFunctionDefinition(project, target) = NotFound
  /\ output' = <<Line("fail", "Function \"" \o target \o "\" not found")>>
  /\ exitCode' = 1
  /\ command' = [name |-> "why", errorName |-> ""]
  /\ options' = opts
  /\ pc' = "exited"
  /\ lastOp' = "why"
  /\ argument' = target
  /\ UNCHANGED <<tsFiles, processed, aiCalls, generatedFiles, outputDir>>
  /\ UNCHANGED <<analysisVars, cacheVars, codeVars>>

\* the results of the glob, cut by --limit
FilesToProcess == {SubSeq(SummaryPaths, 1, n) : n \in 0..Len(SummaryPaths)}

\* docs.ts lines 31-87: the handler up to the loop
DocsStart(opts, files) ==
  /\ pc = "idle"
  /\ pc' = "processing"
  /\ command' = [name |-> "docs", errorName |-> ""]
  /\ options' = opts
  /\ tsFiles' = files
  /\ processed' = 0
  /\ generatedFiles' = <<>>
  /\ aiCalls' = <<>>
  /\ output' = <<Line("header", "Generating Documentation"),
                 Line("succeed", "Found " \o ToString(Len(files))
                                   \o " files to document")>>
                 \o (IF opts.ai /\ ~opts.apiKey
                     THEN <<Line("warning", "Anthropic API key not provided. Generating docs without AI context.")>>
                     ELSE <<>>)
  /\ lastOp' = "docs"
  /\ argument' = ""
  /\ UNCHANGED <<exitCode, outputDir>>
  /\ UNCHANGED <<analysisVars, cacheVars, codeVars>>

\* the next file of the loop
NextFileToProcess == tsFiles[processed + 1]

\* what the loop body ends with: the git analysis throws, the parse throws,
\* writeMarkdown throws, or the markdown is written
Outcomes == {"git", "parse", "write", "written"}

FailureLine(file, outcome) ==
  Line("fail", "Failed to process " \o file \o ": Error: " \o
       (IF outcome = "git" THEN "Could not find git history for " \o file
        ELSE IF outcome = "parse" THEN SourceUnavailable(file)
        ELSE "EACCES: permission denied, open " \o file))

\* docs.ts lines 89-166: one turn of the loop over filesToProcess
DocsProcessFile(outcome, generated) ==
  /\ pc = "processing"
  /\ processed < Len(tsFiles)
  /\ outcome \in {"git", "parse"} \/ disk[NextFileToProcess] # Unreadable
  /\ processed' = processed + 1
  /\ lastOp' = "processFile"
  /\ argument' = NextFileToProcess
  /\ IF outcome \in {"git", "parse"}
     THEN /\ output' = Append(output, FailureLine(NextFileToProcess, outcome))
          /\ aiContext' = Null
          /\ UNCHANGED <<cacheDir, aiCalls, generatedFiles, outputDir>>
     ELSE LET step == IF UsesAI(options)
                      THEN LoadOrGenerate(cacheDir, disk, clock, options.cache,
                                          NextFileToProcess, generated)
                      ELSE [aiContext |-> Null, dir |-> cacheDir, calls |-> <<>>]
              warned == IF step.calls # <<>> /\ step.aiContext = Null
                        THEN <<Line("warning", "AI analysis failed for "
                                                 \o NextFileToProcess)>>
                        ELSE <<>>
              written == MarkdownGenerator_writeMarkdown(
                           outputDir, NextFileToProcess, step.aiContext)
          IN  /\ aiContext' = step.aiContext
              /\ cacheDir' = step.dir
              /\ aiCalls' = aiCalls \o step.calls
              /\ IF outcome = "write"
                 THEN /\ output' = output \o warned
                                     \o <<FailureLine(NextFileToProcess, outcome)>>
                      /\ UNCHANGED <<generatedFiles, outputDir>>
                 ELSE /\ outputDir' = written.dir
                      /\ generatedFiles' = Append(generatedFiles, written.outputPath)
                      /\ output' = output \o warned
                                     \o <<Line("succeed", "Generated "
                                                 \o basename(written.outputPath))>>
  /\ UNCHANGED <<pc, command, tsFiles, exitCode, clock, disk, options>>
  /\ UNCHANGED <<analysisVars, codeVars>>

\* a slip: the index is generated before the loop has ended
DocsIndex_Early ==
  /\ pc = "processing"
  /\ outputDir' = MarkdownGenerator_generateIndex(outputDir, generatedFiles)
  /\ output' = output \o <<Line("succeed", "Index generated!"),
                           Line("success", "Documentation generated"),
                           Line("info", "Files: " \o ToString(Len(generatedFiles)))>>
  /\ pc' = "done"
  /\ lastOp' = "generateIndex"
  /\ argument' = ""
  /\ UNCHANGED <<command, tsFiles, exitCode, options, processed, aiCalls,
                 generatedFiles>>
  /\ UNCHANGED <<analysisVars, cacheVars, codeVars>>

\* docs.ts lines 168-176: the loop has ended, the index is generated
DocsIndex ==
  /\ pc = "processing"
  /\ processed = Len(tsFiles)
  /\ outputDir' = MarkdownGenerator_generateIndex(outputDir, generatedFiles)
  /\ output' = output \o <<Line("succeed", "Index generated!"),
                           Line("success", "Documentation generated"),
                           Line("info", "Files: " \o ToString(Len(generatedFiles)))>>
  /\ pc' = "done"
  /\ lastOp' = "generateIndex"
  /\ argument' = ""
  /\ UNCHANGED <<command, tsFiles, exitCode, options, processed, aiCalls,
                 generatedFiles>>
  /\ UNCHANGED <<analysisVars, cacheVars, codeVars>>

NextSummaries ==
  \/ \E target \in ToSet(SummaryPaths), opts \in Options,
        generated \in ProviderResults : WhyFile(target, opts, generated)
  \/ \E target \in ToSet(SummaryPaths), opts \in Options :
       WhyNotFound(target, opts)
  \/ \E opts \in Options, files \in FilesToProcess : DocsStart(opts, files)
  \/ \E outcome \in Outcomes, generated \in ProviderResults :
       DocsProcessFile(outcome, generated)
  \/ DocsIndex

SpecSummaries == InitSummaries /\ [][NextSummaries]_vars

(***************************************************************************)
(* Vocabulary of the properties.                                           *)
(***************************************************************************)
FlowReturned == lastOp = "analyzeErrorFlow"

ReportReturned == lastOp = "generateCoverageReport"

ProjectPaths == {sourceFiles[i].path : i \in 1..Len(sourceFiles)}

\* the flow of the error a details entry of the report is about
FlowOfDetail(detail) == analyzeErrorFlow(sourceFiles, detail.error)

\* floor(x * 2^16) for a double x, 0 <= x < 2^14
ScaledFloor(x) ==
  IF x.kind # "num" THEN 0
  ELSE LET kept == Precision + x.e + 16
       IN IF kept <= 0 THEN 0 ELSE BitsToInt(SubSeq(x.m, 1, kept))

\* the double x is a finite number within 2^-15 of the fraction num / den
NearFraction(x, num, den) ==
  /\ x.kind \in {"zero", "num"}
  /\ ScaledFloor(x) - (num * Pow2(16)) \div den \in {0 - 1, 0, 1}

\* num / den rounded to the nearest integer, a half going up
RoundHalfUp(num, den) == (2 * num + den) \div (2 * den)

(***************************************************************************)
(* C1.  The flow analyzeErrorFlow returns has uncaughtIn = thrownIn minus  *)
(* caughtIn as sets of file paths; so uncaughtIn is a subset of thrownIn   *)
(* and is disjoint from caughtIn.                                          *)
(***************************************************************************)
C1_UncaughtIsThrownMinusCaught ==
  FlowReturned =>
    /\ ToSet(flow.uncaughtIn) = ToSet(flow.thrownIn) \ ToSet(flow.caughtIn)
    /\ ToSet(flow.uncaughtIn) \subseteq ToSet(flow.thrownIn)
    /\ ToSet(flow.uncaughtIn) \cap ToSet(flow.caughtIn) = {}

\* a flow with a risky file, a file that throws and catches, and a file that
\* only catches
C1_Witness ==
  /\ FlowReturned
  /\ flow.uncaughtIn # <<>>
  /\ ToSet(flow.thrownIn) \cap ToSet(flow.caughtIn) # {}
  /\ ToSet(flow.caughtIn) \ ToSet(flow.thrownIn) # {}

\* the files whose collected raise sites name errorName
CollectedRaisers(errorName) ==
  {filePath \in ProjectPaths :
     LET thrown == analyzeFileErrors(sourceFiles, filePath).thrown
     IN \E i \in 1..Len(thrown) :
          /\ thrown[i].type \in {"thrown", "rethrown"}
          /\ Includes(thrown[i].name, errorName)}

(***************************************************************************)
(* C2.  thrownIn is exactly the set of files for which the site collector  *)
(* (analyzeFileErrors(..).thrown) reports a raise site of kind thrown or   *)
(* rethrown whose name contains the target name.                           *)
(***************************************************************************)
C2_ThrownInIsCollectedRaiseSites ==
  FlowReturned => ToSet(flow.thrownIn) = CollectedRaisers(argument)

\* the files whose collected intercept sites are named errorName
CollectedInterceptors(errorName) ==
  {filePath \in ProjectPaths :
     LET caught == analyzeFileErrors(sourceFiles, filePath).caught
     IN \E i \in 1..Len(caught) : caught[i].name = errorName}

(***************************************************************************)
(* C3.  caughtIn is exactly the set of files for which the site collector  *)
(* (analyzeFileErrors(..).caught) reports an intercept site whose name     *)
(* equals the target name, fallback sites included.                        *)
(***************************************************************************)
C3_CaughtInIsCollectedInterceptSites ==
  FlowReturned => ToSet(flow.caughtIn) = CollectedInterceptors(argument)

\* the files that declare a class named errorName, in iteration order
DeclaringFiles(errorName) ==
  SelectSeq(sourceFiles,
            LAMBDA sourceFile : \E i \in 1..Len(sourceFile.classes) :
                                   sourceFile.classes[i].name = errorName)

(***************************************************************************)
(* C4.  When two or more files declare a class with the target name,       *)
(* definedIn is the file of the first such declaration in iteration order, *)
(* and the call does not fail.                                             *)
(***************************************************************************)
C4_FirstDeclarationWins ==
  (FlowReturned /\ Len(DeclaringFiles(argument)) >= 2) =>
    /\ ~failed
    /\ flow.definedIn = DeclaringFiles(argument)[1].path

\* the files whose classifier output holds a declaration named errorName
ClassifiedIn(errorName) ==
  {filePath \in ProjectPaths :
     LET defined == analyzeFileErrors(sourceFiles, filePath).defined
     IN \E i \in 1..Len(defined) : defined[i].name = errorName}

(***************************************************************************)
(* C5.  definedIn is non-empty if and only if the error classifier         *)
(* (analyzeFileErrors(..).defined) of some file reports a declaration      *)
(* whose name equals the target.                                           *)
(***************************************************************************)
C5_DefinedIffClassified ==
  FlowReturned => (flow.definedIn # "" <=> ClassifiedIn(argument) # {})

(***************************************************************************)
(* C6.  As claimed: the coverage value of an error whose thrownIn is       *)
(* non-empty is the fraction |caughtIn| / |thrownIn|, and 0 when thrownIn  *)
(* is empty.                                                               *)
(***************************************************************************)
C6_CoverageIsFraction ==
  ReportReturned =>
    \A i \in 1..Len(report.details) :
      LET f == FlowOfDetail(report.details[i])
      IN IF Len(f.thrownIn) > 0
         THEN NearFraction(report.details[i].coverage, Len(f.caughtIn), Len(f.thrownIn))
         ELSE report.details[i].coverage = JSZero

(***************************************************************************)
(* C6, amended.  The coverage value of an error whose thrownIn is          *)
(* non-empty is the percentage 100 * |caughtIn| / |thrownIn|, up to the    *)
(* rounding of double arithmetic, and 0 when thrownIn is empty.            *)
(***************************************************************************)
C6_CoverageIsPercentage ==
  ReportReturned =>
    \A i \in 1..Len(report.details) :
      LET f == FlowOfDetail(report.details[i])
      IN IF Len(f.thrownIn) > 0
         THEN NearFraction(report.details[i].coverage,
                           100 * Len(f.caughtIn), Len(f.thrownIn))
         ELSE report.details[i].coverage = JSZero

\* a report on an error caught in one file and thrown in three
C6_Witness ==
  /\ ReportReturned
  /\ \E i \in 1..Len(report.details) :
       /\ Len(FlowOfDetail(report.details[i]).thrownIn) = 3
       /\ Len(FlowOfDetail(report.details[i]).caughtIn) = 1

(***************************************************************************)
(* C7.  For a declared error type whose thrownIn is empty the coverage     *)
(* value is 0 and uncaughtIn / riskyFiles is empty, however many files     *)
(* intercept it; the value is the number 0, not the NaN or the infinity of *)
(* a division by zero.                                                     *)
(***************************************************************************)
C7_NeverThrownHasZeroCoverage ==
  /\ ReportReturned =>
       \A i \in 1..Len(report.details) :
         Len(FlowOfDetail(report.details[i]).thrownIn) = 0 =>
           /\ report.details[i].coverage = JSZero
           /\ report.details[i].riskyFiles = <<>>
           /\ FlowOfDetail(report.details[i]).uncaughtIn = <<>>
           /\ ~failed
  /\ (FlowReturned /\ flow.thrownIn = <<>>) => flow.uncaughtIn = <<>>

\* a report on an error that is intercepted in some file and thrown in none
C7_Witness ==
  /\ ReportReturned
  /\ \E i \in 1..Len(report.details) :
       /\ Len(FlowOfDetail(report.details[i]).thrownIn) = 0
       /\ Len(FlowOfDetail(report.details[i]).caughtIn) > 0

(***************************************************************************)
(* C8.  percentage = round(100 * coveredErrors / totalErrors), where       *)
(* coveredErrors counts the error types whose caughtIn is non-empty; it is *)
(* 0 when totalErrors = 0; coveredErrors + uncoveredErrors = totalErrors   *)
(* and 0 <= percentage <= 100.                                             *)
(***************************************************************************)
C8_PercentageIsRoundedShare ==
  ReportReturned =>
    /\ report.coveredErrors =
         Cardinality({i \in 1..Len(report.details) :
                        Len(FlowOfDetail(report.details[i]).caughtIn) > 0})
    /\ report.percentage =
         IF report.totalErrors = 0 THEN 0
         ELSE RoundHalfUp(100 * report.coveredErrors, report.totalErrors)
    /\ report.coveredErrors + report.uncoveredErrors = report.totalErrors
    /\ 0 <= report.percentage /\ report.percentage <= 100

\* the places (file index, class index) that declare a named error class
ErrorDeclarations ==
  {pos \in (1..Len(sourceFiles)) \X (1..MaxTypes) :
     /\ pos[2] <= Len(sourceFiles[pos[1]].classes)
     /\ IsErrorDeclaration(sourceFiles[pos[1]].classes[pos[2]])
     /\ Truthy(sourceFiles[pos[1]].classes[pos[2]].name)}

DeclaredName(pos) == sourceFiles[pos[1]].classes[pos[2]].name

Before(p, q) == p[1] < q[1] \/ (p[1] = q[1] /\ p[2] < q[2])

\* the first place that declares the error class `name'
FirstDeclaration(name) ==
  CHOOSE p \in ErrorDeclarations :
    /\ DeclaredName(p) = name
    /\ \A q \in ErrorDeclarations : DeclaredName(q) = name => (q = p \/ Before(p, q))

(***************************************************************************)
(* C9.  The details of the report hold exactly one entry per distinct      *)
(* declared error name, in the order in which each name is first           *)
(* discovered iterating the files and their classes.                       *)
(***************************************************************************)
C9_DetailsInDiscoveryOrder ==
  ReportReturned =>
    /\ {report.details[i].error : i \in 1..Len(report.details)}
         = {DeclaredName(p) : p \in ErrorDeclarations}
    /\ \A i, j \in 1..Len(report.details) :
         i < j => /\ report.details[i].error # report.details[j].error
                  /\ Before(FirstDeclaration(report.details[i].error),
                            FirstDeclaration(report.details[j].error))

\* a report with three entries, the first of them for an error that is
\* declared again in a later file
C9_Witness ==
  /\ ReportReturned
  /\ Len(report.details) = 3
  /\ \E p \in ErrorDeclarations :
       /\ DeclaredName(p) = report.details[1].error
       /\ p[1] = Len(sourceFiles)
       /\ p # FirstDeclaration(report.details[1].error)

\* the names the classifier reports over all the files of the project
ClassifiedNames ==
  UNION {LET defined == analyzeFileErrors(sourceFiles, filePath).defined
         IN {defined[i].name : i \in 1..Len(defined)} : filePath \in ProjectPaths}

(***************************************************************************)
(* C10.  The error inventory of the report is the classifier output:       *)
(* totalErrors is the number of distinct names in                          *)
(* analyzeFileErrors(f).defined over the files f, and each such name has a *)
(* details entry.                                                          *)
(***************************************************************************)
C10_InventoryIsClassifierOutput ==
  ReportReturned =>
    /\ report.totalErrors = Cardinality(ClassifiedNames)
    /\ \A name \in ClassifiedNames :
         \E i \in 1..Len(report.details) : report.details[i].error = name

\* the file holds a throw statement whose expression mentions errorName
RaisesTarget(sourceFile, errorName) ==
  \E i \in 1..Len(sourceFile.throws) :
    Includes(ExpressionText(sourceFile.throws[i]), errorName)

\* the file holds a catch clause with a test `.. instanceof errorName'
TestsTarget(sourceFile, errorName) ==
  \E i \in 1..Len(sourceFile.catches) :
    \E j \in 1..Len(sourceFile.catches[i].tests) :
      /\ sourceFile.catches[i].tests[j].operator = "instanceof"
      /\ sourceFile.catches[i].tests[j].right = errorName

\* Scenario B: LoginError is declared in a.ts, raised only in b.ts and
\* tested by instanceof only in c.ts
ScenarioB ==
  sourceFiles = <<SourceFile("a.ts", DeclaringFile), SourceFile("b.ts", RaisingFile),
                  SourceFile("c.ts", InterceptingFile)>>

(***************************************************************************)
(* C11.  An interception in another file never clears the risk at a raise  *)
(* site: a file that raises the target and holds no instanceof test for it *)
(* in a catch clause is in uncaughtIn whatever caughtIn holds.  In         *)
(* Scenario B the flow has caughtIn = {c.ts} and uncaughtIn = {b.ts} and   *)
(* the coverage value of the error is 100.                                 *)
(***************************************************************************)
C11_InterceptionElsewhereKeepsRisk ==
  /\ FlowReturned =>
       \A i \in 1..Len(sourceFiles) :
         (RaisesTarget(sourceFiles[i], argument) /\ ~TestsTarget(sourceFiles[i], argument))
           => ArrayIncludes(flow.uncaughtIn, sourceFiles[i].path)
  /\ (ScenarioB /\ FlowReturned /\ argument = "LoginError") =>
       /\ flow.caughtIn = <<"c.ts">>
       /\ flow.uncaughtIn = <<"b.ts">>
  /\ (ScenarioB /\ ReportReturned) =>
       /\ Len(report.details) = 1
       /\ report.details[1].error = "LoginError"
       /\ JSRound(report.details[1].coverage) = 100
       /\ NearFraction(report.details[1].coverage, 100, 1)
       /\ report.details[1].riskyFiles = <<"b.ts">>

\* the flow of LoginError in Scenario B: raised in b.ts, intercepted in c.ts
C11_Witness ==
  /\ ScenarioB
  /\ FlowReturned
  /\ argument = "LoginError"
  /\ flow.thrownIn = <<"b.ts">>
  /\ flow.caughtIn # <<>>

ContextReturned == lastOp = "analyzeFileErrors" /\ ~failed

\* the file analyzeFileErrors was called for
AnalyzedFile == sourceFiles[getSourceFile(sourceFiles, argument)]

\* the names one of which the text of the extends clause has to contain
ErrorSupertypes == {"Error", "TypedError", "TypeError", "RangeError", "ReferenceError"}

\* the classes of the analyzed file whose extends clause contains such a name
ErrorClassIndices ==
  {i \in 1..Len(AnalyzedFile.classes) :
     /\ AnalyzedFile.classes[i].extends # Undefined
     /\ \E name \in ErrorSupertypes : Includes(AnalyzedFile.classes[i].extends, name)}

(***************************************************************************)
(* C12.  The classifier reports a class of the file as an error type if    *)
(* and only if the text of its extends clause contains, as a               *)
(* case-sensitive substring, one of Error, TypedError, TypeError,          *)
(* RangeError, ReferenceError: one entry per such class, with the file and *)
(* the start line of the class, none for any other class; the call does    *)
(* not fail on a file of the project.                                      *)
(***************************************************************************)
C12_ClassifiedIffExtendsError ==
  (lastOp = "analyzeFileErrors" /\ getSourceFile(sourceFiles, argument) # 0) =>
    /\ ~failed
    /\ Len(context.defined) = Cardinality(ErrorClassIndices)
    /\ \A i \in ErrorClassIndices :
         Cardinality({k \in 1..Len(context.defined) :
                        context.defined[k].location
                          = Location(argument, AnalyzedFile.classes[i].line)}) = 1
    /\ \A k \in 1..Len(context.defined) :
         \E i \in ErrorClassIndices :
           /\ context.defined[k].location = Location(argument, AnalyzedFile.classes[i].line)
           /\ context.defined[k].type = AnalyzedFile.classes[i].extends

\* a file with three classes: one extends a type whose name holds `error' in
\* lower case, one extends Error, one extends a qualified RangeError
C12_Witness ==
  /\ ContextReturned
  /\ Len(AnalyzedFile.classes) = 3
  /\ Len(context.defined) = 2
  /\ \E k \in 1..2 : context.defined[k].type \notin ErrorSupertypes

\* the raise sites of the context reported at a line of the analyzed file
RaiseSitesAt(line) ==
  {k \in 1..Len(context.thrown) : context.thrown[k].location = Location(argument, line)}

(***************************************************************************)
(* C13.  The site collector emits exactly one raise site for every throw   *)
(* statement of the file, whatever the form of the thrown expression: the  *)
(* number of raise sites is the number of throw statements; the site of a  *)
(* new-expression has kind thrown and the constructed type as name, the    *)
(* site of a bare identifier has kind rethrown and the identifier as name. *)
(***************************************************************************)
C13_OneRaiseSitePerThrow ==
  ContextReturned =>
    /\ Len(context.thrown) = Len(AnalyzedFile.throws)
    /\ \A i \in 1..Len(AnalyzedFile.throws) :
         LET throwStmt == AnalyzedFile.throws[i]
         IN /\ Cardinality(RaiseSitesAt(throwStmt.line)) = 1
            /\ \A k \in RaiseSitesAt(throwStmt.line) :
                 /\ throwStmt.kind = "NewExpression" =>
                      /\ context.thrown[k].type = "thrown"
                      /\ context.thrown[k].name = throwStmt.expression
                 /\ throwStmt.kind = "Identifier" =>
                      /\ context.thrown[k].type = "rethrown"
                      /\ context.thrown[k].name = throwStmt.expression

\* the intercept sites of the context reported for the catch clause at a
\* line of the analyzed file
InterceptSitesAt(line) ==
  {k \in 1..Len(context.caught) : context.caught[k].location = Location(argument, line)}

\* the type names the instanceof tests in the body of a catch clause test
TestedTypes(catchClause) ==
  {catchClause.tests[j].right :
     j \in {j \in 1..Len(catchClause.tests) : catchClause.tests[j].operator = "instanceof"}}

(***************************************************************************)
(* C14.  For a catch clause whose body holds several instanceof tests the  *)
(* site collector emits exactly one intercept site per distinct tested     *)
(* type name, never two sites of the same name for the same clause.        *)
(***************************************************************************)
C14_OneInterceptSitePerDistinctType ==
  ContextReturned =>
    \A i \in 1..Len(AnalyzedFile.catches) :
      LET catchClause == AnalyzedFile.catches[i]
          sites == InterceptSitesAt(catchClause.line)
      IN TestedTypes(catchClause) # {} =>
           /\ Cardinality(sites) = Cardinality(TestedTypes(catchClause))
           /\ {context.caught[k].name : k \in sites} = TestedTypes(catchClause)
           /\ \A k, l \in sites : k # l => context.caught[k].name # context.caught[l].name

(***************************************************************************)
(* C15.  Every catch clause without an instanceof test in its body         *)
(* contributes exactly one fallback intercept site, whatever the other     *)
(* catch clauses of the file hold and whatever their order.                *)
(***************************************************************************)
C15_FallbackSitePerUntestedClause ==
  ContextReturned =>
    \A i \in 1..Len(AnalyzedFile.catches) :
      TestedTypes(AnalyzedFile.catches[i]) = {} =>
        Cardinality(InterceptSitesAt(AnalyzedFile.catches[i].line)) = 1

(***************************************************************************)
(* C16.  The fallback intercept site of a catch clause without a type test *)
(* has as its name the declared type of the exception variable of the      *)
(* clause, not the identifier of the variable.                             *)
(***************************************************************************)
C16_FallbackNameIsDeclaredType ==
  ContextReturned =>
    \A i \in 1..Len(AnalyzedFile.catches) :
      TestedTypes(AnalyzedFile.catches[i]) = {} =>
        \A k \in InterceptSitesAt(AnalyzedFile.catches[i].line) :
          context.caught[k].name = AnalyzedFile.catches[i].type

\* no file declares a class of that name and no throw statement mentions it
UnknownTarget(errorName) ==
  \A i \in 1..Len(sourceFiles) :
    /\ \A k \in 1..Len(sourceFiles[i].classes) : sourceFiles[i].classes[k].name # errorName
    /\ ~RaisesTarget(sourceFiles[i], errorName)

\* the flow without a declaration, a raise site or an intercept site
EmptyFlow(errorName) ==
  [error |-> errorName, definedIn |-> "", thrownIn |-> <<>>, caughtIn |-> <<>>,
   uncaughtIn |-> <<>>]

ErrorsRendered == pc = "done" /\ command.name = "errors"

(***************************************************************************)
(* C17.  When the requested error name has no declaration and no raise     *)
(* site in the whole file set, the errors command yields an explicit `not  *)
(* found' outcome: it does not return an ordinary empty flow and does not  *)
(* write the success message `All throws are properly caught!'.            *)
(***************************************************************************)
C17_UnknownTargetIsNotFound ==
  (ErrorsRendered /\ UnknownTarget(command.errorName)) =>
    /\ flow # EmptyFlow(command.errorName)
    /\ \A i \in 1..Len(output) : output[i].text # "All throws are properly caught!"

(***************************************************************************)
(* C18.  In the errors and coverage commands a discovered file whose       *)
(* addSourceFile fails is skipped and reported and the run continues: the  *)
(* handler goes on adding files and does not exit, and the flow or the     *)
(* report it renders is computed over the files added successfully.        *)
(***************************************************************************)
C18_UnreadableFileIsSkipped ==
  /\ (lastOp = "addSourceFile" /\ failed) =>
       /\ pc = "adding"
       /\ exitCode = NoExit
       /\ \E i \in 1..Len(output) : Includes(output[i].text, argument)
  /\ pc # "exited"
  /\ (pc = "done" /\ command.name = "errors") =>
       flow = analyzeErrorFlow(sourceFiles, command.errorName)
  /\ (pc = "done" /\ command.name = "coverage") =>
       report = generateCoverageReport(sourceFiles)

AnalysisOps == {"analyzeFileErrors", "analyzeErrorFlow", "generateCoverageReport"}

BitsLessEq(a, b) ==
  \/ a = b
  \/ \E i \in 1..Len(a) : a[i] < b[i] /\ \A j \in 1..(i - 1) : a[j] = b[j]

\* x <= y for two doubles that are zero or positive finite numbers
JSLessEq(x, y) ==
  /\ x.kind \in {"zero", "num"}
  /\ y.kind \in {"zero", "num"}
  /\ \/ x.kind = "zero"
     \/ /\ y.kind = "num"
        /\ \/ x.e < y.e
           \/ x.e = y.e /\ BitsLessEq(x.m, y.m)

\* the file raises errorName and holds no catch clause
RaisingOnly(sourceFile, errorName) ==
  sourceFile.catches = <<>> /\ RaisesTarget(sourceFile, errorName)

(***************************************************************************)
(* C20.  Monotonicity: adding one new file that holds a raise site of an   *)
(* error that is raised already, and no catch clause, changes thrownIn of  *)
(* that error only by adding the new file, leaves caughtIn as it is,       *)
(* removes no member of thrownIn or uncaughtIn, and does not increase the  *)
(* coverage value of the error.                                            *)
(***************************************************************************)
C20_RaisingFileIsMonotone ==
  [][\A errorName \in Targets :
       (/\ lastOp' = "addSourceFile"
        /\ Len(sourceFiles') = Len(sourceFiles) + 1
        /\ sourceFiles'[Len(sourceFiles')].catches = <<>>
        /\ RaisingOnly(sourceFiles'[Len(sourceFiles')], errorName)
        /\ \E i \in 1..Len(sourceFiles) : RaisesTarget(sourceFiles[i], errorName))
       => LET before == analyzeErrorFlow(sourceFiles, errorName)
              after  == analyzeErrorFlow(sourceFiles', errorName)
              added  == sourceFiles'[Len(sourceFiles')].path
          IN /\ added \notin ToSet(before.thrownIn)
             /\ ToSet(after.thrownIn) = ToSet(before.thrownIn) \cup {added}
             /\ after.caughtIn = before.caughtIn
             /\ ToSet(before.uncaughtIn) \subseteq ToSet(after.uncaughtIn)
             /\ JSLessEq(Coverage(after), Coverage(before))]_vars

\* a raising file without a catch clause has just been added to a project
\* in which LoginError was raised and intercepted already; the coverage
\* value of LoginError has gone down
C20_Witness ==
  /\ lastOp = "addSourceFile"
  /\ Len(sourceFiles) >= 2
  /\ argument = sourceFiles[Len(sourceFiles)].path
  /\ RaisingOnly(sourceFiles[Len(sourceFiles)], "LoginError")
  /\ LET before == analyzeErrorFlow(SubSeq(sourceFiles, 1, Len(sourceFiles) - 1), "LoginError")
         after  == analyzeErrorFlow(sourceFiles, "LoginError")
     IN /\ before.thrownIn # <<>>
        /\ before.caughtIn # <<>>
        /\ Coverage(after) # Coverage(before)
        /\ JSLessEq(Coverage(after), Coverage(before))

\* the analyzed file holds no error-like class declaration, no throw
\* statement and no catch clause
NothingToReport ==
  /\ lastOp = "analyzeFileErrors"
  /\ getSourceFile(sourceFiles, argument) # 0
  /\ ErrorClassIndices = {}
  /\ AnalyzedFile.throws = <<>>
  /\ AnalyzedFile.catches = <<>>

(***************************************************************************)
(* C21.  For an added file with no error-like class declaration, no throw  *)
(* statement and no catch clause, analyzeFileErrors returns defined = [],  *)
(* thrown = [] and caught = [] and does not fail.                          *)
(***************************************************************************)
C21_NothingToReportIsEmpty ==
  NothingToReport =>
    /\ ~failed
    /\ context.defined = <<>>
    /\ context.thrown = <<>>
    /\ context.caught = <<>>

\* the context of a file that holds classes, none of them error-like, and
\* nothing else
C21_Witness ==
  /\ NothingToReport
  /\ ~failed
  /\ \E i \in 1..Len(AnalyzedFile.classes) : AnalyzedFile.classes[i].extends # Undefined
  /\ context = NoContext

\* the double 100
JSHundred == JSMul(JSDiv(1, 1), 100)

(***************************************************************************)
(* C25.  Every per-error coverage value of the coverage report lies in the *)
(* range 0..100, and so does the rounded value the renderer prints: an     *)
(* error intercepted in more files than it is raised in does not get a     *)
(* value above 100.                                                        *)
(***************************************************************************)
C25_CoverageWithinPercentRange ==
  ReportReturned =>
    \A i \in 1..Len(report.details) :
      /\ JSLessEq(JSZero, report.details[i].coverage)
      /\ JSLessEq(report.details[i].coverage, JSHundred)
      /\ JSRound(report.details[i].coverage) \in 0..100

\* a flow or a coverage report has been written to the output
Rendered == \E i \in 1..Len(output) : output[i].method = "header"

(***************************************************************************)
(* C26.  In the errors and coverage commands the aggregation starts only   *)
(* after every discovered file has been added, and a result is rendered    *)
(* only if the whole run completed: when adding a file fails, no flow and  *)
(* no coverage report is computed or rendered, the command writes the      *)
(* error and exits with status 1.                                          *)
(***************************************************************************)
C26_ResultOnlyOfCompleteRun ==
  /\ (lastOp \in {"analyzeErrorFlow", "generateCoverageReport"} \/ Rendered) =>
       /\ pc = "done"
       /\ [i \in 1..Len(sourceFiles) |-> sourceFiles[i].path] = tsFiles
       /\ ~failed
       /\ exitCode = NoExit
  /\ failed =>
       /\ pc = "exited"
       /\ exitCode = 1
       /\ ~Rendered
       /\ flow = NoFlow
       /\ report = NoReport
       /\ output[Len(output)].method = "error"
  /\ pc = "exited" => failed

\* a run that has added two files and exits at the third without a result
C26_Witness ==
  /\ pc = "exited"
  /\ exitCode = 1
  /\ Len(sourceFiles) = 2
  /\ ~Rendered

(***************************************************************************)
(* The cache of AI summaries.                                              *)
(***************************************************************************)
\* the source file is in the state the entry of its path was written for
FileUnchanged(filePath) ==
  cacheDir[filePath].fileHash = getFileHash(disk, filePath)

\* the age of the entry of a path
Age(filePath) == clock - cacheDir[filePath].timestamp

C23_ReturnedContextIsFresh ==
  lastOp = "get" /\ aiContext # Null =>
    /\ cacheDir[argument].kind = "entry"
    /\ FileUnchanged(argument)

(***************************************************************************)
(* The search of a function.                                               *)
(***************************************************************************)
\* a file declares a function of the name, binds an arrow function or a
\* function expression to a variable of the name, or has a class with a
\* method of the name
HasFunctionDeclaration(sourceFile, name) ==
  \E i \in 1..Len(sourceFile.content.functions) :
     sourceFile.content.functions[i].name = name

HasFunctionVariable(sourceFile, name) ==
  \E i \in 1..Len(sourceFile.content.variables) :
     /\ sourceFile.content.variables[i].name = name
     /\ sourceFile.content.variables[i].initializer
          \in {"ArrowFunction", "FunctionExpression"}

HasMethod(sourceFile, name) ==
  \E i \in 1..Len(sourceFile.content.classes) :
     \E j \in 1..Len(sourceFile.content.classes[i].methods) :
        sourceFile.content.classes[i].methods[j].name = name

\* C29: findFunctionDefinition returns a location exactly when some added
\* file has a function declaration, a function-valued variable or a class
\* method of the name
C29_FoundIffDeclaredSomewhere ==
  lastOp = "findFunctionDefinition" =>
    (definition # NotFound <=>
       \E i \in 1..Len(project) :
          \/ HasFunctionDeclaration(project[i], argument)
          \/ HasFunctionVariable(project[i], argument)
          \/ HasMethod(project[i], argument))

(***************************************************************************)
(* The why and docs commands.                                              *)
(***************************************************************************)
\* the step is the AI section of why, or a turn of the loop of docs
Summarises == lastOp' \in {"why", "processFile"}

\* the files sent to the provider when the step sends its file
CallsWithThisFile ==
  Append(IF lastOp' = "why" THEN <<>> ELSE aiCalls, argument')

\* the step ended before the AI section: why has exited, or the turn of the
\* loop failed in the git analysis or in the parse
EndedBeforeAI ==
  \/ pc' = "exited"
  \/ /\ output'[Len(output')].method = "fail"
     /\ \/ Includes(output'[Len(output')].text, "git history")
        \/ Includes(output'[Len(output')].text, "File not found")

\* C24: in a why or docs run with --no-cache the cache directory is left as
\* it is, the summary of a file is never one of the cache: the provider is
\* asked for it in the same step, and it is asked whenever a key is
\* available and the file reaches the AI section
C24_NoCacheIgnoresTheCache ==
  [][command'.name \in {"why", "docs"} /\ ~options'.cache =>
       /\ cacheDir' = cacheDir
       /\ Summarises /\ aiContext' # Null =>
            /\ aiCalls' = CallsWithThisFile
            /\ aiContext' \in ProviderResults \ {Failure}
       /\ Summarises /\ UsesAI(options') /\ ~EndedBeforeAI =>
            aiCalls' = CallsWithThisFile]_vars

\* a docs run with --no-cache has regenerated the summary of a file whose
\* cached summary is neither expired nor stale, and the entry is still there
C24_Witness ==
  /\ command.name = "docs"
  /\ ~options.cache
  /\ lastOp = "processFile"
  /\ argument = "src/a/index.ts"
  /\ cacheDir[argument] = CacheEntry("summary one", md5("v1"), 1, 604800000)
  /\ disk[argument] = "v1"
  /\ aiCalls = <<argument>>
  /\ aiContext = "summary two"

\* the lookup of a path misses: the entry is absent, corrupt, expired, or
\* written for another state of the file
LookupMisses(filePath) ==
  IF cacheDir[filePath].kind # "entry" THEN TRUE
  ELSE \/ clock - cacheDir[filePath].timestamp > cacheDir[filePath].ttl
       \/ cacheDir[filePath].fileHash # getFileHash(disk, filePath)

\* C27: in a why run with the cache on and a key, the provider is asked
\* exactly when the lookup misses; on a hit the cached summary is used and
\* the cache is left as it is; an entry is written only with the summary
\* the provider has returned, and after a failed generation the path has no
\* entry
C27_ProviderAskedIffLookupMisses ==
  [][(/\ lastOp' = "why" /\ pc' = "done"
      /\ options'.ai /\ options'.cache /\ options'.apiKey) =>
       /\ aiCalls' # <<>> <=> LookupMisses(argument')
       /\ aiCalls' \in {<<>>, <<argument'>>}
       /\ ~LookupMisses(argument') =>
            aiContext' = cacheDir[argument'].context /\ cacheDir' = cacheDir
       /\ cacheDir'[argument'].kind = "entry"
            /\ cacheDir'[argument'] # cacheDir[argument'] =>
            /\ aiCalls' = <<argument'>>
            /\ aiContext' \in ProviderResults \ {Failure}
            /\ cacheDir'[argument'].context = aiContext'
       /\ aiCalls' # <<>> /\ aiContext' = Null =>
            cacheDir'[argument'] = NoCacheFile
       /\ \A filePath \in ToSet(SummaryPaths) \ {argument'} :
            cacheDir'[filePath] = cacheDir[filePath]]_vars

\* a why run has taken the summary of an entry that is exactly seven days
\* old without asking the provider
C27_Witness ==
  /\ lastOp = "why"
  /\ pc = "done"
  /\ options.ai /\ options.cache /\ options.apiKey
  /\ aiCalls = <<>>
  /\ cacheDir[argument].kind = "entry"
  /\ clock - cacheDir[argument].timestamp = 604800000
  /\ aiContext = "summary one"

\* the lines the turns of the loop of docs have ended with
IsGenerated(line) ==
  line.method = "succeed" /\ Includes(line.text, "Generated ")

IsFailed(line) ==
  line.method = "fail" /\ Includes(line.text, "Failed to process ")

IsTurn(line) == IsGenerated(line) \/ IsFailed(line)

Turns == SelectSeq(output, IsTurn)

\* the files whose markdown was written, in processing order
IsWritten(k) == IsGenerated(Turns[k])

WrittenFiles ==
  LET written == SelectSeq(Indices(Len(Turns)), IsWritten)
  IN  [i \in 1..Len(written) |-> tsFiles[written[i]]]

\* the name of the document of a source file
DocumentName(filePath) ==
  IF filePath = "src/main.ts" THEN "main" ELSE "index"

\* the entry of the index for a document
EntryOf(filePath) ==
  "- [" \o DocumentName(filePath) \o "](./" \o DocumentName(filePath) \o ".md)"

DocsDone == command.name = "docs" /\ pc = "done"

C30_OneDocumentPerSourceFile ==
  DocsDone =>
    /\ \A i, j \in 1..Len(generatedFiles) :
         i # j => generatedFiles[i] # generatedFiles[j]
    /\ \A i \in 1..Len(WrittenFiles) :
         /\ generatedFiles[i] \in DOMAIN outputDir
         /\ outputDir[generatedFiles[i]].source = WrittenFiles[i]
    /\ \A i, j \in 1..Len(outputDir["README.md"].entries) :
         i # j => outputDir["README.md"].entries[i]
                    # outputDir["README.md"].entries[j]
====
